---- MODULE Spec2Model ----
(***************************************************************************)
(* Model of autophone's persistent job queue (src/jobs.py, class Jobs) and *)
(* of the per-phone worker (src/worker.py, class PhoneWorkerSubProcess).   *)
(*                                                                         *)
(* The job table is the sqlite table                                       *)
(*   jobs(created text, last_attempt text, build_url text,                 *)
(*        attempts int, device text)                                       *)
(* which has no declared key: a row's id is sqlite's implicit ROWID.       *)
(***************************************************************************)
EXTENDS Integers, Sequences, FiniteSets, TLC

\* ------------------------------------------------------------------ bounds
\* Number of new_job calls in a run.
MaxEnqueues == 2
\* Failed connects in one call of _conn, past SQL_MAX_RETRIES.
MaxExtraFailures == 1
\* Failed statements in one call of a retrying method.
MaxStmtFailures == 1
\* Requests waiting on a worker's command queue.
MaxQueue == 1
\* Builds AutoPhone enqueues for the phone of a worker whose tests and abi
\* vary, or whose command queue holds more than one request.
MaxJobs == 1
\* Requests waiting on the command queue of such a worker.
MaxRequests == 2
\* Number of add_crash calls in a run.
MaxCrashes == 4

\* ------------------------------------------------------- program constants
MAX_ATTEMPTS == 3
SQL_RETRY_DELAY == 60
SQL_MAX_RETRIES == 10

\* ------------------------------------------------------------ value spaces
Devices == {"D1", "D2"}
\* device=None in a call of the store
NoDevice == "None"
\* Jobs.default_device
default_device == "D1"
\* A build_url is the sequence of its path segments; "s in build_url" is
\* read as: s is one of the segments.
BuildUrls == {<< "armv6" >>, << "x86" >>}
NoUrl == << >>
Contains(build_url, part) == \E i \in DOMAIN build_url : build_url[i] = part
\* Wall-clock readings, in half seconds: 00, 00.500000 and 01 seconds.
Times == {0, 1, 2}
\* The reading at which get_next_job stamps last_attempt (a column the
\* program writes and never reads).
AttemptTimes == {2}
\* SQL NULL / Python None for a text column
NullText == <<>>

Max(S) == CHOOSE x \in S : \A y \in S : y <= x

\* ---------------------------------------------------------------- helpers
\* datetime.isoformat(): the time-of-day tail "SS" or "SS.ffffff"; the
\* microseconds are left out when they are zero.  Characters are ASCII codes.
isoformat(t) ==
    LET sec  == t \div 2
        usec == (t % 2) * 500000
        Dig(n, p) == 48 + ((n \div p) % 10)
        head == << Dig(sec, 10), Dig(sec, 1) >>
    IN  IF usec = 0 THEN head
        ELSE head \o << 46, Dig(usec, 100000), Dig(usec, 10000), Dig(usec, 1000),
                        Dig(usec, 100), Dig(usec, 10), Dig(usec, 1) >>

\* sqlite's BINARY collation of two text values: memcmp on the common
\* length, then the shorter one first.
TextLess(a, b) ==
    LET n == IF Len(a) < Len(b) THEN Len(a) ELSE Len(b)
    IN  \/ \E i \in 1..n : a[i] < b[i] /\ \A j \in 1..(i-1) : a[j] = b[j]
        \/ Len(a) < Len(b) /\ \A j \in 1..n : a[j] = b[j]

\* if not device: device = self.default_device
ResolveDevice(d) == IF d = NoDevice THEN default_device ELSE d

\* ------------------------------------------------------------------ state
VARIABLES
    rows,       \* the jobs table: a set of rows, each with its ROWID
    result,     \* what the last get_next_job or jobs_pending returned
    call,       \* retry specification: the Jobs method in progress, with its loops' locals
    enq,        \* history: number of new_job calls so far
    issued,     \* history: greatest ROWID ever given to an inserted row
    returned,   \* history: ROWID -> greatest attempts value get_next_job returned for it
    trip        \* history: progress of a new_job; get_next_job; job_completed sequence

storeVars == << rows, result, call, enq, issued, returned, trip >>

VARIABLES
    pc,             \* where the worker process is: start, loop, job, wait, stopped
    status,         \* self.status
    request,        \* main_loop's local request
    stop,           \* self._stop
    last_ping,      \* whether self.last_ping is set
    current_build,  \* whether self.current_build is set
    job,            \* the job get_next_job handed to main_loop ({} or {job})
    cmd_queue,      \* the command queue, oldest first
    tests,          \* self.tests, as configured
    abi,            \* phone_cfg['abi']
    handler,        \* history: the handler the worker ran last, with its request
    log,            \* history: what that handler did, in order
    crashes,        \* PhoneWorker.crashes: crash_times, crash_window, crash_limit
    crash_log,      \* history: every reading add_crash recorded, in order
    tried,          \* history: the job whose every take so far ended in a
                    \* cache failure, and the number of those takes
    answers         \* environment: the phone has come to answer every reboot,
                    \* device root probe and SD-card check from now on

crashVars == << crashes, crash_log >>

workerVars == << pc, status, request, stop, last_ping, current_build, job,
                 cmd_queue, tests, abi, handler, log, crashes, crash_log, tried,
           answers >>

vars == << rows, result, call, enq, issued, returned, trip,
           pc, status, request, stop, last_ping, current_build, job,
           cmd_queue, tests, abi, handler, log, crashes, crash_log, tried,
           answers >>

RowIds == 1..MaxEnqueues

IdleCall ==
    [op |-> "idle", device |-> NoDevice, build_url |-> NoUrl, now |-> 0, job_id |-> 0,
     phase |-> "none", attempt |-> 0, email_sent |-> FALSE,
     cattempt |-> 0, cemail_sent |-> FALSE,
     failed |-> FALSE, waited |-> 0, mails |-> 0]

\* op, device, job and count are the call and what it returned; the rest is
\* history: whether the call took its except branch, whether the delete
\* of get_next_job was committed, and the rows that delete removed.
Returned(op, device, found, count, error, prune_done, pruned) ==
    [op |-> op, device |-> device, job |-> found, count |-> count,
     error |-> error, prune_done |-> prune_done, pruned |-> pruned]

NoResult == Returned("none", NoDevice, {}, 0, FALSE, FALSE, {})

NoTrip ==
    [stage |-> 0, pre |-> {}, device |-> NoDevice, url |-> NoUrl, id |-> 0,
     newest |-> FALSE]

\* ------------------------------------------------------ the table's statements
\* The ROWID sqlite gives a row inserted into a table without a declared
\* key: one more than the largest ROWID in the table, 1 in an empty table.
NextRowid(rs) == IF rs = {} THEN 1 ELSE Max({r.id : r \in rs}) + 1

\* insert into jobs values (now, None, build_url, 0, device)
\* (taken is history: the times get_next_job returned the row)
InsertJob(rs, now, build_url, device) ==
    rs \cup {[id |-> NextRowid(rs), created |-> isoformat(now),
              last_attempt |-> NullText, build_url |-> build_url,
              attempts |-> 0, device |-> device, taken |-> 0]}

\* delete from jobs
DeleteAll(rs) == {}

\* A faulty prune, attempts > MAX_ATTEMPTS, that claim C2 has to tell from
\* the program's.
DeleteExhaustedAbove(rs, device) ==
    {r \in rs : ~(r.device = device /\ r.attempts > MAX_ATTEMPTS)}

\* delete from jobs where device=? and attempts>=MAX_ATTEMPTS
DeleteExhausted(rs, device) ==
    {r \in rs : ~(r.device = device /\ r.attempts >= MAX_ATTEMPTS)}

\* A faulty selection, order by created asc, that claim C4 has to tell from
\* the program's.
OldestJobs(rs, device) ==
    {r \in rs : /\ r.device = device
                /\ \A q \in rs : q.device = device => ~TextLess(q.created, r.created)}

\* select ... from jobs where device=? order by created desc, then jobs[0]:
\* the rows that can come first.  Rows with equal created text come in an
\* order sqlite does not fix.
FirstJobs(rs, device) ==
    {r \in rs : /\ r.device = device
                /\ \A q \in rs : q.device = device => ~TextLess(r.created, q.created)}

\* A faulty update, where device = the row's device, that claim C11 has to
\* tell from the program's.
UpdateAttemptDevice(rs, id, attempts, last_attempt) ==
    {IF \E t \in rs : t.id = id /\ t.device = r.device
     THEN [r EXCEPT !.attempts = attempts, !.last_attempt = last_attempt]
     ELSE r : r \in rs}

\* update jobs set attempts=?, last_attempt=? where ROWID=?
UpdateAttempt(rs, id, attempts, last_attempt) ==
    {IF r.id = id THEN [r EXCEPT !.attempts = attempts, !.last_attempt = last_attempt]
                  ELSE r : r \in rs}

\* A faulty delete, where ROWID<=?, that claim C5 has to tell from the
\* program's.
DeleteRowidUpTo(rs, job_id) == {r \in rs : r.id > job_id}

\* delete from jobs where ROWID=?
DeleteRowid(rs, job_id) == {r \in rs : r.id # job_id}

\* A faulty count, of the rows of every device, that claim C28 has to tell
\* from the program's.
CountEveryDevice(rs, device) == Cardinality(rs)

\* select count(ROWID) from jobs where device=?
CountDevice(rs, device) == Cardinality({r \in rs : r.device = device})

\* A faulty dict, its columns shifted by one, that claim C12 has to tell
\* from the program's.
JobOfShifted(r) ==
    [id |-> r.id, created |-> r.created, last_attempt |-> r.last_attempt,
     build_url |-> r.last_attempt, attempts |-> r.attempts]

\* The dict get_next_job builds from a selected row.
JobOf(r) == [id |-> r.id, created |-> r.created, last_attempt |-> r.last_attempt,
             build_url |-> r.build_url, attempts |-> r.attempts]

\* A faulty dict, its attempts not counted up, that claim C31 has to tell
\* from the program's.
NextJobUncounted(r, now) ==
    [JobOf(r) EXCEPT !.last_attempt = isoformat(now)]

\* next_job['attempts'] += 1; next_job['last_attempt'] = now
NextJob(r, now) ==
    [JobOf(r) EXCEPT !.attempts = r.attempts + 1, !.last_attempt = isoformat(now)]

\* report_sql_error: the mail, and the wait, happen on the first failure
\* past SQL_MAX_RETRIES only.
report_sql_error(attempt, email_sent) ==
    LET fire == attempt > SQL_MAX_RETRIES /\ ~email_sent
    IN  [email_sent |-> email_sent \/ fire,
         mails      |-> IF fire THEN 1 ELSE 0,
         waited     |-> IF fire THEN SQL_RETRY_DELAY ELSE 0]

\* The wall-clock reading a created text stands for.
IsoTime(txt) == CHOOSE t \in Times : isoformat(t) = txt

\* ------------------------------------------------- history kept for the claims
\* The new_job; get_next_job; job_completed sequence, followed call by call.
TripAfterInsert(rs, build_url, device, now) ==
    [stage |-> 1, pre |-> rs, device |-> device, url |-> build_url, id |-> NextRowid(rs),
     newest |-> \A r \in rs : (r.device = device /\ r.attempts < MAX_ATTEMPTS)
                                  => IsoTime(r.created) < now]

TripAfterTake(device, next_job) ==
    IF trip.stage = 1 /\ trip.device = device
    THEN [trip EXCEPT !.stage = 2, !.id = next_job.id]
    ELSE NoTrip

TripAfterDelete(job_id) ==
    IF trip.stage = 2 /\ trip.id = job_id THEN [trip EXCEPT !.stage = 3] ELSE NoTrip

\* ------------------------------------------- what a Jobs method does when it
\* ------------------------------------------- meets no (further) storage error
\* clear_all: conn.cursor().execute('delete from jobs'); conn.commit()
ClearAllDone ==
    /\ rows' = DeleteAll(rows)
    /\ result' = NoResult
    /\ trip' = NoTrip
    /\ UNCHANGED << issued, returned >>

\* new_job: the insert and its commit
NewJobDone(build_url, device, now) ==
    /\ rows' = InsertJob(rows, now, build_url, device)
    /\ issued' = IF NextRowid(rows) > issued THEN NextRowid(rows) ELSE issued
    /\ result' = NoResult
    /\ trip' = TripAfterInsert(rows, build_url, device, now)
    /\ UNCHANGED returned

\* job_completed: the delete and its commit
JobCompletedDone(job_id) ==
    /\ rows' = DeleteRowid(rows, job_id)
    /\ result' = NoResult
    /\ trip' = TripAfterDelete(job_id)
    /\ UNCHANGED << issued, returned >>

\* jobs_pending: the count
JobsPendingDone(device) ==
    /\ result' = Returned("jobs_pending", device, {}, CountDevice(rows, device),
                           FALSE, FALSE, {})
    /\ trip' = NoTrip
    /\ UNCHANGED << rows, issued, returned >>

\* jobs_pending: except sqlite3.OperationalError: count = 0
JobsPendingFailed(device) ==
    /\ result' = Returned("jobs_pending", device, {}, 0, TRUE, FALSE, {})
    /\ trip' = NoTrip
    /\ UNCHANGED << rows, issued, returned >>

\* get_next_job with no failing statement: the exhausted rows are deleted
\* and committed, the device's rows are selected newest first, and the
\* first one, if any, is updated, committed and returned.
GetNextJobDone(device) ==
    LET kept == DeleteExhausted(rows, device)
    IN  \/ /\ FirstJobs(kept, device) = {}
           /\ rows' = kept
           /\ result' = Returned("get_next_job", device, {}, 0, FALSE, TRUE, rows \ kept)
           /\ trip' = NoTrip
           /\ UNCHANGED << issued, returned >>
        \/ \E r \in FirstJobs(kept, device), now \in AttemptTimes :
             LET next_job == NextJob(r, now)
                 updated  == UpdateAttempt(kept, next_job.id, next_job.attempts,
                                           next_job.last_attempt)
             IN  /\ rows' = {IF q.id = r.id THEN [q EXCEPT !.taken = @ + 1] ELSE q
                                : q \in updated}
                 /\ result' = Returned("get_next_job", device, {next_job}, 0,
                                        FALSE, TRUE, rows \ kept)
                 /\ returned' = [returned EXCEPT ![next_job.id] =
                                    IF next_job.attempts > @ THEN next_job.attempts ELSE @]
                 /\ trip' = TripAfterTake(device, next_job)
                 /\ UNCHANGED issued

\* get_next_job: except sqlite3.OperationalError: next_job = None.  The
\* delete or its commit failed (nothing is changed), or a later statement
\* failed: the delete is committed then, and the update, if it was made,
\* is rolled back with the connection.
GetNextJobFailed(device) ==
    /\ \/ /\ rows' = rows
          /\ result' = Returned("get_next_job", device, {}, 0, TRUE, FALSE, {})
       \/ /\ rows' = DeleteExhausted(rows, device)
          /\ result' = Returned("get_next_job", device, {}, 0, TRUE, TRUE,
                                 rows \ DeleteExhausted(rows, device))
    /\ trip' = NoTrip
    /\ UNCHANGED << issued, returned >>

\* ------------------------------------------------- Jobs: one action per call
\* (the calls of a run in which every retried statement succeeds in the end)
clear_all ==
    /\ call.op = "idle"
    /\ ClearAllDone
    /\ UNCHANGED << call, enq >>
    /\ UNCHANGED workerVars

new_job_from(urls, devices, times) ==
    /\ call.op = "idle"
    /\ enq < MaxEnqueues
    /\ \E build_url \in urls, device \in devices, now \in times :
          NewJobDone(build_url, ResolveDevice(device), now)
    /\ enq' = enq + 1
    /\ UNCHANGED call

new_job ==
    /\ new_job_from(BuildUrls, Devices \cup {NoDevice}, Times)
    /\ UNCHANGED workerVars

job_completed ==
    /\ call.op = "idle"
    /\ \E job_id \in RowIds : JobCompletedDone(job_id)
    /\ UNCHANGED << call, enq >>
    /\ UNCHANGED workerVars

jobs_pending ==
    /\ call.op = "idle"
    /\ \E device \in Devices \cup {NoDevice} :
          \/ JobsPendingDone(ResolveDevice(device))
          \/ JobsPendingFailed(ResolveDevice(device))
    /\ UNCHANGED << call, enq >>
    /\ UNCHANGED workerVars

get_next_job ==
    /\ call.op = "idle"
    /\ \E device \in Devices \cup {NoDevice} :
          \/ GetNextJobDone(ResolveDevice(device))
          \/ GetNextJobFailed(ResolveDevice(device))
    /\ UNCHANGED << call, enq >>
    /\ UNCHANGED workerVars

\* ------------------------------------------------- Jobs: one action per turn
\* ------------------------------------------------- of a loop (retry specification)
RetryingOps == {"clear_all", "new_job", "job_completed"}

Begin(op, device, build_url, now, job_id) ==
    [IdleCall EXCEPT !.op = op, !.device = device, !.build_url = build_url,
                     !.now = now, !.job_id = job_id, !.phase = "conn",
                     !.attempt = IF op \in RetryingOps THEN 1 ELSE 0]

\* A Jobs method is entered: its locals are set (attempt = 0, email_sent =
\* False, then attempt += 1 at the top of the loop; new_job reads now before
\* its loop) and _conn is called.
enter_call ==
    /\ call.op = "idle"
    /\ \/ call' = Begin("clear_all", NoDevice, NoUrl, 0, 0) /\ UNCHANGED enq
       \/ /\ enq < MaxEnqueues
          /\ call' = Begin("new_job", ResolveDevice(NoDevice), << "armv6" >>, 0, 0)
          /\ enq' = enq + 1
       \/ /\ \E job_id \in RowIds : call' = Begin("job_completed", NoDevice, NoUrl, 0, job_id)
          /\ UNCHANGED enq
       \/ call' = Begin("jobs_pending", ResolveDevice(NoDevice), NoUrl, 0, 0) /\ UNCHANGED enq
       \/ call' = Begin("get_next_job", ResolveDevice(NoDevice), NoUrl, 0, 0) /\ UNCHANGED enq
    /\ UNCHANGED << rows, result, issued, returned, trip >>
    /\ UNCHANGED workerVars

\* A turn of _conn's loop in which sqlite3.connect raises OperationalError:
\* the error is reported and the loop goes round.
conn_fails ==
    /\ call.phase = "conn"
    /\ call.cattempt < SQL_MAX_RETRIES + MaxExtraFailures
    /\ LET attempt == call.cattempt + 1
           rep     == report_sql_error(attempt, call.cemail_sent)
       IN  call' = [call EXCEPT !.cattempt = attempt,
                                !.cemail_sent = rep.email_sent,
                                !.failed = TRUE,
                                !.mails = @ + rep.mails,
                                !.waited = rep.waited]
    /\ UNCHANGED << rows, result, enq, issued, returned, trip >>
    /\ UNCHANGED workerVars

\* The turn of _conn's loop in which sqlite3.connect returns the connection.
conn_returns ==
    /\ call.phase = "conn"
    /\ call' = [call EXCEPT !.phase = "stmt", !.cattempt = 0, !.cemail_sent = FALSE,
                            !.failed = FALSE, !.waited = 0]
    /\ UNCHANGED << rows, result, enq, issued, returned, trip >>
    /\ UNCHANGED workerVars

\* A turn of clear_all's, new_job's or job_completed's loop in which the
\* statement or its commit raises OperationalError: nothing is committed,
\* the error is reported and the loop goes round, calling _conn again.
statement_fails ==
    /\ call.op \in RetryingOps
    /\ call.phase = "stmt"
    /\ call.attempt <= MaxStmtFailures
    /\ LET rep == report_sql_error(call.attempt, call.email_sent)
       IN  call' = [call EXCEPT !.attempt = @ + 1,
                                !.email_sent = rep.email_sent,
                                !.phase = "conn",
                                !.failed = TRUE,
                                !.mails = @ + rep.mails,
                                !.waited = rep.waited]
    /\ UNCHANGED << rows, result, enq, issued, returned, trip >>
    /\ UNCHANGED workerVars

\* The turn of a retrying method's loop in which the statement and the
\* commit succeed: break.
statement_commits ==
    /\ call.phase = "stmt"
    /\ \/ call.op = "clear_all" /\ ClearAllDone
       \/ call.op = "new_job" /\ NewJobDone(call.build_url, call.device, call.now)
       \/ call.op = "job_completed" /\ JobCompletedDone(call.job_id)
    /\ call' = IdleCall
    /\ UNCHANGED enq
    /\ UNCHANGED workerVars

\* jobs_pending and get_next_job, once _conn has returned.
query_returns ==
    /\ call.phase = "stmt"
    /\ \/ call.op = "jobs_pending" /\ JobsPendingDone(call.device)
       \/ call.op = "jobs_pending" /\ JobsPendingFailed(call.device)
       \/ call.op = "get_next_job" /\ GetNextJobDone(call.device)
       \/ call.op = "get_next_job" /\ GetNextJobFailed(call.device)
    /\ call' = IdleCall
    /\ UNCHANGED enq
    /\ UNCHANGED workerVars

\* ======================================================== the worker
\* PhoneTestMessage's status values
IDLE == "IDLE"
INSTALLING == "INSTALLING BUILD"
WORKING == "WORKING"
REBOOTING == "REBOOTING"
DISCONNECTED == "DISCONNECTED"
DISABLED == "DISABLED"
Statuses == {IDLE, INSTALLING, WORKING, REBOOTING, DISCONNECTED, DISABLED}

\* PhoneWorker's defaults for user_cfg
PHONE_RETRY_LIMIT == 2
PHONE_MAX_REBOOTS == 3

\* phone_cfg['phoneid'] of the worker modelled
phoneid == "D1"

\* The requests PhoneWorker puts on cmd_queue
Commands == {"stop", "job", "reboot", "disable", "enable", "debug", "ping"}
NoRequest == "None"

\* How one turn of recover_phone's loop can end: the reboot or the probe
\* raises DMError or getDeviceRoot returns nothing (noroot), check_sdcard
\* fails, or check_sdcard passes.
RebootOutcomes == {"noroot", "sdcard", "ok"}

\* The fields of the worker and of the table a handler reads and writes.
Frame ==
    [status |-> status, stop |-> stop, last_ping |-> last_ping,
     current_build |-> current_build, rows |-> rows, log |-> << >>]

Did(f, what) == [f EXCEPT !.log = Append(@, what)]

has_error(f) == f.status = DISABLED \/ f.status = DISCONNECTED

\* self.status = msg.status; self.autophone_queue.put_nowait(msg)
status_update(f, st) == [f EXCEPT !.status = st, !.log = Append(@, st)]

\* A faulty check_sdcard, passing without resetting the status, that claim
\* C29 has to tell from the program's.
check_sdcard_mute(f, ok) ==
    IF ok THEN Did(f, "check_sdcard")
    ELSE Did(Did(f, "check_sdcard"), "clear_test_base_paths")

\* ok: every device operation of the check succeeded
check_sdcard(f, ok) ==
    IF ok THEN status_update(Did(f, "check_sdcard"), IDLE)
    ELSE Did(Did(f, "check_sdcard"), "clear_test_base_paths")

\* A faulty phone_disconnected, not looking at has_error, that claim C23 has
\* to tell from the program's.
phone_disconnected_again(f, msg_body) ==
    status_update(IF msg_body THEN Did(f, "mail disconnected") ELSE f, DISCONNECTED)

\* A faulty phone_disconnected, sending no mail, that claim C19 has to tell
\* from the program's.
phone_disconnected_silent(f, msg_body) ==
    IF has_error(f) THEN f
    ELSE status_update(f, DISCONNECTED)

phone_disconnected(f, msg_body) ==
    IF has_error(f) THEN f
    ELSE status_update(IF msg_body THEN Did(f, "mail disconnected") ELSE f, DISCONNECTED)

disable_phone(f, errmsg, send_email) ==
    status_update(IF errmsg /\ send_email THEN Did(f, "mail disabled") ELSE f, DISABLED)

RECURSIVE recover_turns(_, _, _)
recover_turns(f, outs, reboots) ==
    IF reboots < PHONE_MAX_REBOOTS
    THEN LET f1 == Did(f, "reboot")
             o  == outs[reboots + 1]
         IN  IF o = "ok" THEN check_sdcard(Did(f1, "device_root"), TRUE)
             ELSE recover_turns(
                      Did(IF o = "sdcard" THEN check_sdcard(Did(f1, "device_root"), FALSE)
                          ELSE Did(f1, "device_root"),
                          "disconnect_dm"),
                      outs, reboots + 1)
    ELSE phone_disconnected(f, TRUE)

\* A faulty recover_phone, giving up without phone_disconnected, that claim
\* C21 has to tell from the program's.
recover_phone_quiet(f, outs) ==
    LET r == recover_turns(f, outs, 0)
    IN  IF r.status = DISCONNECTED /\ f.status # DISCONNECTED
        THEN [r EXCEPT !.status = f.status,
                       !.log = SelectSeq(@, LAMBDA e : e \notin {DISCONNECTED, "mail disconnected"})]
        ELSE r

recover_phone(f, outs) == recover_turns(f, outs, 0)

reboot(f, outs) == recover_phone(status_update(f, REBOOTING), outs)

ping(f) == Did(f, "ping")

\* A faulty handle_cmd, deaf to stop, that claim C26 has to tell from the
\* program's.
handle_cmd_deaf(f, req, outs) ==
    CASE req = "reboot"  -> reboot(f, outs)
      [] req = "disable" -> disable_phone(f, TRUE, FALSE)
      [] req = "enable"  -> IF has_error(f)
                            THEN [status_update(f, IDLE) EXCEPT !.last_ping = FALSE]
                            ELSE f
      [] req = "debug"   -> Did(f, "set debug")
      [] req = "ping"    -> ping(f)
      [] OTHER           -> f

handle_cmd(f, req, outs) ==
    CASE req = "stop"    -> [f EXCEPT !.stop = TRUE]
      [] req = "job"     -> f
      [] req = "reboot"  -> reboot(f, outs)
      [] req = "disable" -> disable_phone(f, TRUE, FALSE)
      [] req = "enable"  -> IF has_error(f)
                            THEN [status_update(f, IDLE) EXCEPT !.last_ping = FALSE]
                            ELSE f
      [] req = "debug"   -> Did(f, "set debug")
      [] req = "ping"    -> ping(f)
      [] OTHER           -> f

\* A faulty handle_timeout, letting a failed ping pass, that claim C30 has to
\* tell from the program's.
handle_timeout_lenient(f, due, pong, outs) ==
    IF f.status # DISABLED /\ (~f.last_ping \/ due)
    THEN LET f1 == ping([f EXCEPT !.last_ping = TRUE])
         IN  IF pong
             THEN LET f2 == IF f1.status = DISCONNECTED THEN recover_phone(f1, outs) ELSE f1
                  IN  IF ~has_error(f2) THEN status_update(f2, IDLE) ELSE f2
             ELSE f1
    ELSE f

\* due: no ping was made yet, or PHONE_PING_INTERVAL has gone by since the last
handle_timeout(f, due, pong, outs) ==
    IF f.status # DISABLED /\ (~f.last_ping \/ due)
    THEN LET f1 == ping([f EXCEPT !.last_ping = TRUE])
         IN  IF pong
             THEN LET f2 == IF f1.status = DISCONNECTED THEN recover_phone(f1, outs) ELSE f1
                  IN  IF ~has_error(f2) THEN status_update(f2, IDLE) ELSE f2
             ELSE IF ~has_error(f1) THEN phone_disconnected(f1, TRUE) ELSE f1
    ELSE f

\* metadata['tree'] of a build the cache returns
Repos == {"mc", "inbound"}

\* A TestCase, as far as the worker reads it: the devices its
\* test_devices_repos map lists, the repos listed for each as (device,
\* repo) pairs, and enable_unittests.  What runjob does is the test's own:
\* it returns, it reports WORKING through status_cb and returns, or it
\* raises DMError.
TestOutcomes == {"ok", "working", "dmerror"}
DeviceRepos(t, d) == {p[2] : p \in {q \in t.repos : q[1] = d}}

\* for attempt in range(PHONE_RETRY_LIMIT): push, install, remove; a
\* DMError is followed by the PHONE_RETRY_WAIT sleep.  installs[i] tells
\* whether the i-th attempt goes through.
RECURSIVE install_turns(_, _, _)
install_turns(f, installs, attempt) ==
    IF attempt < PHONE_RETRY_LIMIT
    THEN install_turns(IF installs[attempt + 1] THEN Did(f, "install")
                       ELSE Did(Did(f, "install failed"), "sleep"),
                       installs, attempt + 1)
    ELSE f

\* for t in self.tests: ... t.runjob(build_metadata, self)
RECURSIVE test_turns(_, _, _, _, _)
test_turns(f, ts, i, tree, outs) ==
    IF i > Len(ts) \/ has_error(f) THEN [f |-> f, ok |-> TRUE]
    ELSE LET t     == ts[i]
             repos == DeviceRepos(t, phoneid)
         IN  IF phoneid \in t.devices /\ repos # {} /\ tree \notin repos
             THEN test_turns(f, ts, i + 1, tree, outs)
             ELSE LET f1 == Did(f, "runjob")
                  IN  IF outs[i] = "dmerror"
                      THEN [f |-> phone_disconnected(f1, TRUE), ok |-> FALSE]
                      ELSE test_turns(IF outs[i] = "working" THEN status_update(f1, WORKING)
                                      ELSE f1,
                                      ts, i + 1, tree, outs)

\* env: what the phone, the cache and the tests answer during the handler
run_tests(f, ts, env) ==
    LET f1 == IF ~has_error(f) THEN reboot(f, env.reboots) ELSE f
    IN  IF has_error(f1) THEN [f |-> f1, ok |-> FALSE]
        ELSE LET f2 == install_turns(status_update(f1, INSTALLING), env.installs, 0)
                 success == \E i \in 1..PHONE_RETRY_LIMIT : env.installs[i]
             IN  IF ~success THEN [f |-> phone_disconnected(f2, TRUE), ok |-> FALSE]
                 ELSE test_turns([f2 EXCEPT !.current_build = TRUE], ts, 1,
                                 env.tree, env.tests)

\* The abi rule of handle_job
incompatible_job(a, build_url) ==
    IF a = "x86" THEN ~Contains(build_url, "x86")
    ELSE IF a = "armeabi-v6" THEN ~Contains(build_url, "armv6")
    ELSE Contains(build_url, "x86") \/ Contains(build_url, "armv6")

\* A faulty rule, taking the build for a test whose map does not list the
\* device, that claim C16 has to tell from the program's.
test_takes_unlisted(t, build_url) ==
    \/ phoneid \notin t.devices
    \/ \E repo \in DeviceRepos(t, phoneid) : Contains(build_url, repo)

\* Whether the loop over self.tests leaves skip_build False at this test.
test_takes(t, build_url) ==
    \/ t.devices = {}
    \/ /\ phoneid \in t.devices
       /\ \E repo \in DeviceRepos(t, phoneid) : Contains(build_url, repo)

\* The loop over self.tests stops at the first test that takes the build;
\* enable_unittests is set only when that test lists the device.
first_taker(ts, build_url) ==
    LET takers == {i \in 1..Len(ts) : test_takes(ts[i], build_url)}
    IN  IF takers = {} THEN 0 ELSE CHOOSE i \in takers : \A k \in takers : i <= k

enable_unittests(ts, build_url) ==
    LET i == first_taker(ts, build_url)
    IN  i # 0 /\ ts[i].devices # {} /\ ts[i].enable_unittests

\* self.jobs.job_completed(job['id'])
worker_job_completed(f, job_id) ==
    [Did(f, "job_completed") EXCEPT !.rows = DeleteRowid(@, job_id)]

\* A faulty handle_job, completing the job when the cache fails, that claim
\* C20 has to tell from the program's.
handle_job_dropping(f, j, ts, a, env) ==
    IF incompatible_job(a, j.build_url) THEN worker_job_completed(f, j.id)
    ELSE IF first_taker(ts, j.build_url) = 0 THEN worker_job_completed(f, j.id)
    ELSE LET f1 == Did(f, IF enable_unittests(ts, j.build_url)
                          THEN "cache get with unittests" ELSE "cache get")
         IN  IF ~env.cache THEN worker_job_completed(Did(f1, "cache failed"), j.id)
             ELSE LET r == run_tests(f1, ts, env)
                  IN  IF r.ok THEN status_update(worker_job_completed(r.f, j.id), IDLE)
                      ELSE r.f

handle_job(f, j, ts, a, env) ==
    IF incompatible_job(a, j.build_url) THEN worker_job_completed(f, j.id)
    ELSE IF first_taker(ts, j.build_url) = 0 THEN worker_job_completed(f, j.id)
    ELSE LET f1 == Did(f, IF enable_unittests(ts, j.build_url)
                          THEN "cache get with unittests" ELSE "cache get")
         IN  IF ~env.cache THEN Did(f1, "cache failed")
             ELSE LET r == run_tests(f1, ts, env)
                  IN  IF r.ok THEN status_update(worker_job_completed(r.f, j.id), IDLE)
                      ELSE r.f

\* ------------------------------------------------------------ Crashes
\* crash_window and crash_limit a Crashes is built with (seconds, count),
\* and the wall-clock readings of add_crash (seconds).
CrashWindows == {1, 2}
CrashLimits == {2, 3}
CrashClock == {0, 1, 2, 3}

\* Crashes.__init__
Crashes(crash_window, crash_limit) ==
    [crash_times |-> << >>, crash_window |-> crash_window, crash_limit |-> crash_limit]

\* A faulty filter, crash_times[-1] - x < crash_window, that claim C13 has to
\* tell from the program's.
add_crash_strict(c, now) ==
    LET appended == Append(c.crash_times, now)
    IN  [c EXCEPT !.crash_times =
            SelectSeq(appended, LAMBDA x : appended[Len(appended)] - x < c.crash_window)]

\* Crashes.add_crash, now being datetime.datetime.now()
add_crash_at(c, now) ==
    LET appended == Append(c.crash_times, now)
    IN  [c EXCEPT !.crash_times =
            SelectSeq(appended, LAMBDA x : appended[Len(appended)] - x <= c.crash_window)]

\* Crashes.too_many_crashes
too_many_crashes(c) == Len(c.crash_times) >= c.crash_limit

\* A call of add_crash.  The table and the worker take no part.
add_crash ==
    /\ Len(crash_log) < MaxCrashes
    /\ \E now \in CrashClock :
          /\ crashes' = add_crash_at(crashes, now)
          /\ crash_log' = Append(crash_log, now)
    /\ UNCHANGED storeVars
    /\ UNCHANGED << pc, status, request, stop, last_ping, current_build, job,
                    cmd_queue, tests, abi, handler, log, tried, answers >>

\* ------------------------------------------------------ the worker's steps
\* The lists of tests a worker is configured with.
UnitTest == [devices |-> {}, repos |-> {}, enable_unittests |-> FALSE]
RepoTest == [devices |-> {"D1"}, repos |-> {<< "D1", "mc" >>}, enable_unittests |-> TRUE]
QuietRepoTest == [devices |-> {"D1"}, repos |-> {<< "D1", "mc" >>}, enable_unittests |-> FALSE]
FlaggedTest == [devices |-> {}, repos |-> {}, enable_unittests |-> TRUE]
OtherDeviceTest == [devices |-> {"D2"}, repos |-> {<< "D2", "mc" >>}, enable_unittests |-> TRUE]
TestLists == { << UnitTest >>, << RepoTest, UnitTest >> }
JobTestLists ==
    { << UnitTest >>, << FlaggedTest >>, << RepoTest >>, << OtherDeviceTest >>,
      << RepoTest, UnitTest >>, << UnitTest, RepoTest >>,
      << QuietRepoTest, RepoTest >>, << RepoTest, QuietRepoTest >>,
      << UnitTest, OtherDeviceTest >> }
\* Build URLs with the repository among their segments.
JobUrls == { << "mc", "armv6" >>, << "inbound", "armv6" >>, << "mc", "x86" >>,
             << "mc", "android" >> }
Abis == {"armeabi-v6", "x86", "armeabi-v7a"}

\* What the phone answers to the reboots of one recover_phone: the answers
\* after the first success are never asked for, so they are fixed to "ok".
RebootRuns ==
    {outs \in [1..PHONE_MAX_REBOOTS -> RebootOutcomes] :
        \A i \in 1..PHONE_MAX_REBOOTS : \A k \in 1..PHONE_MAX_REBOOTS :
            (outs[i] = "ok" /\ k > i) => outs[k] = "ok"}

AllOk == [i \in 1..PHONE_MAX_REBOOTS |-> "ok"]

\* What the phone, the cache and the tests answer during one handle_job
\* of a worker configured with the tests ts.
\* Answers the handler cannot come to ask for are fixed: nothing follows a
\* cache miss, a failed recovery, a build that never installs or a test
\* that raises DMError.
Env(ts) ==
    {env \in [reboots  : RebootRuns,
              installs : [1..PHONE_RETRY_LIMIT -> BOOLEAN],
              tests    : [1..Len(ts) -> TestOutcomes],
              tree     : Repos,
              cache    : BOOLEAN] :
        LET rest_fixed == /\ env.tree = "mc"
                          /\ \A i \in 1..Len(ts) : env.tests[i] = "ok"
            installed  == \E i \in 1..PHONE_RETRY_LIMIT : env.installs[i]
        IN  /\ ~env.cache => (env.reboots = AllOk /\ installed /\ rest_fixed)
            /\ (\A i \in 1..PHONE_MAX_REBOOTS : env.reboots[i] # "ok")
                  => (\A i \in 1..PHONE_RETRY_LIMIT : env.installs[i]) /\ rest_fixed
            /\ ~installed => rest_fixed
            /\ \A i \in 1..Len(ts) : \A k \in 1..Len(ts) :
                  (env.tests[i] = "dmerror" /\ k > i) => env.tests[k] = "ok"}

\* The takes of job j, the one that leaves f included, if every one of them
\* ended in a cache failure.
NoTried == [id |-> 0, failures |-> 0]
TriedAfter(j, f) ==
    LET failed == \E i \in DOMAIN f.log : f.log[i] = "cache failed"
        so_far == IF j.attempts = 1 THEN 0
                  ELSE IF tried.id = j.id THEN tried.failures
                  ELSE -1
    IN  IF failed /\ so_far = j.attempts - 1
        THEN [id |-> j.id, failures |-> j.attempts]
        ELSE NoTried

\* The answers the phone can give to a reboot, a probe or an SD-card check:
\* any of them, or the good one only once it has come to answer.
Answers(any, good) == IF answers THEN {good} ELSE any

\* The worker's fields as a handler leaves them.
Leaves(f) ==
    /\ status' = f.status
    /\ stop' = f.stop
    /\ last_ping' = f.last_ping
    /\ current_build' = f.current_build
    /\ log' = f.log

\* PhoneWorkerSubProcess.run, up to the call of main_loop
run ==
    /\ UNCHANGED << crashVars, tried, answers >>
    /\ pc = "start"
    /\ \E sd_ok \in Answers(BOOLEAN, TRUE), outs \in Answers(RebootRuns, AllOk) :
          LET f0 == status_update(Frame, status)
          IN  \E f1 \in {IF status = DISABLED THEN f0
                         ELSE IF sd_ok THEN check_sdcard(f0, TRUE)
                         ELSE recover_phone(check_sdcard(f0, FALSE), outs)} :
                 Leaves(f1)
    /\ pc' = "loop"
    /\ handler' = [name |-> "run", request |-> NoRequest]
    /\ UNCHANGED << request, job, cmd_queue, tests, abi >>
    /\ UNCHANGED storeVars

\* main_loop, a turn in which a request is at hand (kept from the timed
\* wait, or taken by get_nowait): handle_cmd, then return if _stop.
main_loop_request ==
    /\ UNCHANGED << crashVars, tried, answers >>
    /\ pc = "loop"
    /\ request # NoRequest \/ cmd_queue # << >>
    /\ LET req == IF request # NoRequest THEN request ELSE Head(cmd_queue)
       IN  /\ \E outs \in IF req = "reboot" THEN Answers(RebootRuns, AllOk) ELSE {AllOk} :
                \E f \in {handle_cmd(Frame, req, outs)} :
                    /\ Leaves(f)
                    /\ pc' = IF f.stop THEN "stopped" ELSE "loop"
           /\ handler' = [name |-> "handle_cmd", request |-> req]
    /\ cmd_queue' = IF request # NoRequest THEN cmd_queue ELSE Tail(cmd_queue)
    /\ request' = NoRequest
    /\ UNCHANGED << job, tests, abi >>
    /\ UNCHANGED storeVars

\* main_loop, a turn in which get_nowait raises Queue.Empty: recover_phone
\* if the worker has an error, then, if it has none, get_next_job.
main_loop_empty ==
    /\ UNCHANGED << crashVars, tried, answers >>
    /\ pc = "loop"
    /\ request = NoRequest
    /\ cmd_queue = << >>
    /\ \E outs \in IF has_error(Frame) THEN Answers(RebootRuns, AllOk) ELSE {AllOk} :
          \E f \in {IF has_error(Frame) THEN recover_phone(Frame, outs) ELSE Frame} :
              /\ Leaves(f)
              /\ IF has_error(f)
                 THEN /\ pc' = "loop"
                      /\ job' = {}
                      /\ UNCHANGED storeVars
                 ELSE /\ \/ GetNextJobDone(phoneid)
                         \/ GetNextJobFailed(phoneid)
                      /\ job' = result'.job
                      /\ pc' = IF result'.job = {} THEN "wait" ELSE "job"
                      /\ UNCHANGED << call, enq >>
    /\ handler' = [name |-> "main_loop", request |-> NoRequest]
    /\ UNCHANGED << request, cmd_queue, tests, abi >>

\* main_loop: self.handle_job(job)
main_loop_job ==
    /\ UNCHANGED << crashVars, answers >>
    /\ pc = "job"
    /\ \E j \in job :
          \E f \in {handle_job(Frame, j, tests, abi, env) :
                        env \in {e \in Env(tests) : e.reboots \in Answers(RebootRuns, AllOk)}} :
              /\ Leaves(f)
              /\ rows' = f.rows
              /\ tried' = TriedAfter(j, f)
    /\ pc' = "loop"
    /\ job' = {}
    /\ handler' = [name |-> "handle_job", request |-> NoRequest]
    /\ UNCHANGED << request, cmd_queue, tests, abi >>
    /\ UNCHANGED << result, call, enq, issued, returned, trip >>

\* main_loop: the timed cmd_queue.get returns a request
main_loop_receive ==
    /\ UNCHANGED << crashVars, tried, answers >>
    /\ pc = "wait"
    /\ cmd_queue # << >>
    /\ request' = Head(cmd_queue)
    /\ cmd_queue' = Tail(cmd_queue)
    /\ pc' = "loop"
    /\ handler' = [name |-> "get", request |-> Head(cmd_queue)]
    /\ log' = << >>
    /\ UNCHANGED << status, stop, last_ping, current_build, job, tests, abi >>
    /\ UNCHANGED storeVars

\* main_loop: the timed cmd_queue.get raises Queue.Empty: handle_timeout
main_loop_timeout ==
    /\ UNCHANGED << crashVars, tried, answers >>
    /\ pc = "wait"
    /\ cmd_queue = << >>
    /\ \E due \in BOOLEAN, pong \in Answers(BOOLEAN, TRUE),
          outs \in IF status = DISCONNECTED THEN Answers(RebootRuns, AllOk) ELSE {AllOk} :
          \E f \in {handle_timeout(Frame, due, pong, outs)} : Leaves(f)
    /\ pc' = "loop"
    /\ handler' = [name |-> "handle_timeout", request |-> NoRequest]
    /\ UNCHANGED << request, job, cmd_queue, tests, abi >>
    /\ UNCHANGED storeVars

\* PhoneWorker.stop, new_job, reboot, disable, enable, debug, ping:
\* cmd_queue.put_nowait
put_nowait ==
    /\ UNCHANGED << crashVars, tried, answers >>
    /\ Len(cmd_queue) < MaxQueue
    /\ \E c \in Commands :
          /\ cmd_queue' = Append(cmd_queue, c)
          /\ handler' = [name |-> "put_nowait", request |-> c]
    /\ log' = << >>
    /\ UNCHANGED << pc, status, request, stop, last_ping, current_build, job,
                    tests, abi >>
    /\ UNCHANGED storeVars

\* The same, on a command queue that holds up to MaxRequests requests
put_request ==
    /\ UNCHANGED << crashVars, tried, answers >>
    /\ Len(cmd_queue) < MaxRequests
    /\ \E c \in Commands :
          /\ cmd_queue' = Append(cmd_queue, c)
          /\ handler' = [name |-> "put_nowait", request |-> c]
    /\ log' = << >>
    /\ UNCHANGED << pc, status, request, stop, last_ping, current_build, job,
                    tests, abi >>
    /\ UNCHANGED storeVars

\* AutoPhone enqueues a build for the worker's phone
supervisor_new_job ==
    /\ UNCHANGED << crashVars, tried, answers >>
    /\ new_job_from(BuildUrls, {phoneid}, {0})
    /\ handler' = [name |-> "new_job", request |-> NoRequest]
    /\ log' = << >>
    /\ UNCHANGED << pc, status, request, stop, last_ping, current_build, job,
                    cmd_queue, tests, abi >>

\* AutoPhone enqueues a build of some repository for the worker's phone
autophone_new_job ==
    /\ UNCHANGED << crashVars, tried, answers >>
    /\ enq < MaxJobs
    /\ new_job_from(JobUrls, {phoneid}, {0})
    /\ handler' = [name |-> "new_job", request |-> NoRequest]
    /\ log' = << >>
    /\ UNCHANGED << pc, status, request, stop, last_ping, current_build, job,
                    cmd_queue, tests, abi >>

\* AutoPhone empties the jobs table
supervisor_clear_all ==
    /\ UNCHANGED << crashVars, tried, answers >>
    /\ call.op = "idle"
    /\ ClearAllDone
    /\ handler' = [name |-> "clear_all", request |-> NoRequest]
    /\ log' = << >>
    /\ UNCHANGED << call, enq >>
    /\ UNCHANGED << pc, status, request, stop, last_ping, current_build, job,
                    cmd_queue, tests, abi >>

\* The phone comes to answer, for good.
phone_answers ==
    /\ ~answers
    /\ answers' = TRUE
    /\ handler' = [name |-> "phone", request |-> NoRequest]
    /\ log' = << >>
    /\ UNCHANGED << pc, status, request, stop, last_ping, current_build, job,
                    cmd_queue, tests, abi, tried >>
    /\ UNCHANGED crashVars
    /\ UNCHANGED storeVars

\* The table as Jobs.__init__ creates it, no call in progress, and the
\* worker as its process starts: start(status) has set self.status.
Starts(statuses, lists, abis, windows, limits) ==
    /\ crashes \in {Crashes(w, l) : w \in windows, l \in limits}
    /\ crash_log = << >>
    /\ tried = NoTried
    /\ answers = FALSE
    /\ rows = {}
    /\ result = NoResult
    /\ call = IdleCall
    /\ enq = 0
    /\ issued = 0
    /\ returned = [i \in RowIds |-> 0]
    /\ trip = NoTrip
    /\ pc = "start"
    /\ status \in statuses
    /\ request = NoRequest
    /\ stop = FALSE
    /\ last_ping = FALSE
    /\ current_build = FALSE
    /\ job = {}
    /\ cmd_queue = << >>
    /\ tests \in lists
    /\ abi \in abis
    /\ handler = [name |-> "none", request |-> NoRequest]
    /\ log = << >>

StoreNext ==
    \/ clear_all
    \/ new_job
    \/ job_completed
    \/ jobs_pending
    \/ get_next_job

WorkerNext ==
    \/ run
    \/ main_loop_request
    \/ main_loop_empty
    \/ main_loop_job
    \/ main_loop_receive
    \/ main_loop_timeout
    \/ put_nowait
    \/ supervisor_new_job

RetryNext ==
    \/ enter_call
    \/ conn_fails
    \/ conn_returns
    \/ statement_fails
    \/ statement_commits
    \/ query_returns

\* A worker started idle or disabled.
WorkerInit == Starts({IDLE, DISABLED}, {<< UnitTest >>}, {"armeabi-v6"}, {1}, {2})

\* The table with a worker that takes no step.
StoreInit == Starts({IDLE}, {<< UnitTest >>}, {"armeabi-v6"}, {1}, {2})

\* The job table under any sequence of calls of Jobs' methods.
Spec == StoreInit /\ [][StoreNext]_vars

\* Jobs' methods turn by turn of their loops, with storage errors.
SpecRetry == StoreInit /\ [][RetryNext]_vars

\* A Crashes object under any sequence of add_crash calls.
CrashesInit == Starts({IDLE}, {<< UnitTest >>}, {"armeabi-v6"}, CrashWindows, CrashLimits)
CrashesNext == add_crash
SpecCrashes == CrashesInit /\ [][CrashesNext]_vars

\* A worker that is sent no command, under every configuration of tests and
\* abi, and the builds enqueued for its phone.
JobInit == Starts({IDLE}, JobTestLists, Abis, {1}, {2})
JobNext ==
    \/ run
    \/ main_loop_empty
    \/ main_loop_job
    \/ main_loop_timeout
    \/ autophone_new_job
SpecJob == JobInit /\ [][JobNext]_vars

\* A worker and a command queue of several requests, with one build enqueued
\* for its phone.
CmdInit == Starts({IDLE, DISABLED}, {<< UnitTest >>}, {"armeabi-v6"}, {1}, {2})
CmdNext ==
    \/ run
    \/ main_loop_request
    \/ main_loop_empty
    \/ main_loop_job
    \/ main_loop_receive
    \/ main_loop_timeout
    \/ put_request
    \/ autophone_new_job
SpecCmd == CmdInit /\ [][CmdNext]_vars

\* A worker that is sent no command, beside an AutoPhone that enqueues
\* builds for its phone and empties the table, in any order.
SupInit == Starts({IDLE}, {<< UnitTest >>}, {"armeabi-v6"}, {1}, {2})
SupNext ==
    \/ run
    \/ main_loop_empty
    \/ main_loop_job
    \/ main_loop_timeout
    \/ supervisor_new_job
    \/ supervisor_clear_all
SpecSup == SupInit /\ [][SupNext]_vars

\* A worker that is sent no command and whose main loop keeps turning,
\* beside an AutoPhone that enqueues builds for its phone.
DrainNext ==
    \/ run
    \/ main_loop_empty
    \/ main_loop_job
    \/ main_loop_timeout
    \/ supervisor_new_job
SpecDrain == SupInit /\ [][DrainNext]_vars /\ WF_vars(main_loop_empty)

\* A worker that is sent no command and whose main loop keeps turning: a
\* turn on an empty command queue is taken if it stays possible.
LiveInit == Starts({IDLE}, {<< UnitTest >>}, {"armeabi-v6"}, {1}, {2})
LiveNext ==
    \/ run
    \/ main_loop_empty
    \/ main_loop_job
    \/ main_loop_timeout
    \/ autophone_new_job
    \/ phone_answers
SpecLive == LiveInit /\ [][LiveNext]_vars /\ WF_vars(main_loop_empty)

\* A worker, its command queue and the job table.
SpecWorker == WorkerInit /\ [][WorkerNext]_vars

\* ==================================================================== claims
\* The status events a handler put on autophone_queue, in order.
Events(l) == SelectSeq(l, LAMBDA e : e \in Statuses)

\* The rows of a device, and the wall-clock reading of a row's created text.
DeviceRows(rs, device) == {r \in rs : r.device = device}
CreatedAt(r) == IsoTime(r.created)

\* ---------------------------------------------------------------------- C1
\* C1 (as stated): every job get_next_job returns has attempts at most
\* MAX_ATTEMPTS and strictly greater than every attempts value returned
\* before for the same ROWID.  The program does not keep this: a ROWID is
\* given again after its row is deleted (see C10), and the new row comes
\* back with attempts = 1.
C1_AttemptsGrowPerId ==
    [][\A j \in result'.job :
          result'.op = "get_next_job"
              => j.attempts <= MAX_ATTEMPTS /\ j.attempts > returned[j.id]]_vars

\* ---------------------------------------------------------------------- C2
\* C2 (amended): once get_next_job has returned a row MAX_ATTEMPTS times,
\* every later get_next_job for its device whose delete is committed removes
\* the row and does not return it, and leaves the device without rows if it
\* was the device's only row; and no get_next_job, failed or not, returns
\* the row again.
C2_PrunedOnNextTake ==
    [][result'.op = "get_next_job" =>
          \A r \in DeviceRows(rows, result'.device) :
              r.taken >= MAX_ATTEMPTS =>
                  /\ \A j \in result'.job : j.id # r.id
                  /\ result'.prune_done =>
                        /\ \A q \in rows' : q.id # r.id
                        /\ DeviceRows(rows, r.device) = {r}
                              => CountDevice(rows', r.device) = 0]_vars

\* A get_next_job has just deleted a row it had returned MAX_ATTEMPTS times,
\* the only row of its device, and returned nothing.
C2_Witness ==
    /\ result.op = "get_next_job"
    /\ ~result.error
    /\ result.job = {}
    /\ \E r \in result.pruned : r.taken = MAX_ATTEMPTS /\ r.device = result.device
    /\ CountDevice(rows, result.device) = 0

\* C2 (as stated): every later get_next_job for the device deletes the row.
\* A get_next_job whose delete meets a storage error returns None and leaves
\* the row in the table.
C2_EveryLaterTakePrunes ==
    [][result'.op = "get_next_job" =>
          \A r \in DeviceRows(rows, result'.device) :
              r.taken >= MAX_ATTEMPTS =>
                  /\ \A j \in result'.job : j.id # r.id
                  /\ \A q \in rows' : q.id # r.id]_vars

\* ---------------------------------------------------------------------- C4
\* C4: the row get_next_job returns has the greatest created among the rows
\* of its device that are left after the delete of exhausted rows; no row of
\* the device left in the table is newer than the one returned.
C4_NewestFirst ==
    (result.op = "get_next_job" /\ result.job # {}) =>
        \A j \in result.job :
            /\ \E r \in DeviceRows(rows, result.device) :
                  r.id = j.id /\ r.created = j.created
            /\ \A r \in DeviceRows(rows, result.device) :
                  /\ CreatedAt(r) <= IsoTime(j.created)
                  /\ ~TextLess(j.created, r.created)

\* get_next_job has returned a row although an older row of the same device,
\* inserted after it and written with microseconds, is in the table.
C4_Witness ==
    /\ result.op = "get_next_job"
    /\ \E j \in result.job :
          \E r \in DeviceRows(rows, result.device) :
              /\ CreatedAt(r) < IsoTime(j.created)
              /\ r.id > j.id
              /\ Len(r.created) > Len(j.created)
              /\ r.attempts < MAX_ATTEMPTS

\* ---------------------------------------------------------------------- C5
\* C5 (amended): new_job(build_url, device), then get_next_job(device), then
\* job_completed(id of the job returned) leave the table as it was before
\* the new_job less that device's exhausted rows (attempts >= MAX_ATTEMPTS),
\* provided the new row's created is later than that of every other row of
\* the device that is not exhausted.  Rows of other devices are untouched.
C5_RoundTrip ==
    (trip.stage = 3 /\ trip.newest) => rows = DeleteExhausted(trip.pre, trip.device)

\* The three calls were made on a table holding an older row of the same
\* device that is not exhausted.
C5_Witness ==
    /\ trip.stage = 3
    /\ trip.newest
    /\ \E r \in trip.pre : r.device = trip.device /\ r.attempts < MAX_ATTEMPTS

\* C5 (as stated): the three calls leave the table exactly as it was before
\* the new_job.  get_next_job deletes the device's exhausted rows on the
\* way, and it returns an older row of the device when that row's created
\* is not earlier than the new row's.
C5_RoundTripExact ==
    trip.stage = 3 => rows = trip.pre

\* ---------------------------------------------------------------------- C7
\* C7 (as stated): get_next_job and jobs_pending never retry on a storage
\* error: after a failed attempt to open the connection they make no second
\* attempt.  The program's _conn loops until sqlite3.connect succeeds,
\* whoever calls it.
C7_QueriesNeverRetry ==
    call.op \in {"get_next_job", "jobs_pending"} => call.cattempt <= 1

\* ---------------------------------------------------------------------- C8
\* C8 (as stated): one call of clear_all, new_job or job_completed sends at
\* most one mail.  The program keeps one email_sent per call of _conn and
\* another in the method, so a call sends one mail for each _conn that fails
\* more than SQL_MAX_RETRIES times.
C8_OneMailPerCall ==
    call.op \in RetryingOps => call.mails <= 1

\* ---------------------------------------------------------------------- C9
\* C9 (as stated): every failed attempt is followed by a wait of
\* SQL_RETRY_DELAY before the next attempt.  The program sleeps only in the
\* one report_sql_error that sends the mail.
C9_DelayAfterEveryFailure ==
    call.failed => call.waited = SQL_RETRY_DELAY

\* --------------------------------------------------------------------- C10
\* C10 (as stated): the ROWID given to a new row is greater than every ROWID
\* given before, deleted rows included.  sqlite gives max(ROWID) + 1 of the
\* rows in the table, so the ROWID of a deleted last row is given again.
C10_IdsNeverReused ==
    [][enq' = enq + 1 => \A r \in rows' \ rows : r.id > issued]_vars

\* ---------------------------------------------------------------------- C3
\* C3 (as stated): a worker whose status is DISABLED emits and holds no
\* other status until it handles an enable command.  The program's main_loop
\* calls recover_phone on an empty queue whenever has_error(), DISABLED
\* included, and check_sdcard then reports IDLE; reboot reports REBOOTING.
C3_DisabledUntilEnable ==
    [][(status = DISABLED /\ ~(handler'.name = "handle_cmd" /\ handler'.request = "enable"))
          => /\ status' = DISABLED
             /\ \A i \in DOMAIN Events(log') : Events(log')[i] = DISABLED]_vars

\* ---------------------------------------------------------------------- C6
\* C6 (as stated): a disable command handled while the status is DISABLED
\* emits no status event.  The program's disable_phone calls status_update
\* whatever the status is.
C6_SecondDisableSilent ==
    [][(status = DISABLED /\ handler'.name = "handle_cmd" /\ handler'.request = "disable")
          => Events(log') = << >>]_vars

\* --------------------------------------------------------------------- C11
\* C11: in every step of the table, a row that stays (same ROWID) changes
\* only by being returned by get_next_job, its attempts growing by one and
\* its last_attempt being set; a row that goes with attempts < MAX_ATTEMPTS
\* goes by job_completed of its ROWID or by clear_all; get_next_job removes
\* only rows of its device with attempts >= MAX_ATTEMPTS; and a row comes
\* only by new_job, alone and with attempts = 0.
C11_Lifecycle ==
    [][/\ \A r \in rows : \A q \in rows' :
             (q.id = r.id /\ q # r) =>
                 /\ result'.op = "get_next_job"
                 /\ \E j \in result'.job : j.id = r.id /\ j.attempts = q.attempts
                                            /\ j.last_attempt = q.last_attempt
                 /\ q.attempts = r.attempts + 1
                 /\ q.created = r.created /\ q.build_url = r.build_url
                 /\ q.device = r.device
       /\ \A r \in rows :
             (\A q \in rows' : q.id # r.id) =>
                 /\ r.attempts < MAX_ATTEMPTS
                       => /\ result'.op = "none"
                          /\ rows' = {} \/ rows' = rows \ {r}
                 /\ result'.op = "get_next_job"
                       => r.attempts >= MAX_ATTEMPTS /\ r.device = result'.device
                 /\ result'.op # "jobs_pending"
       /\ \A q \in rows' :
             (\A r \in rows : r.id # q.id) =>
                 /\ enq' = enq + 1
                 /\ q.attempts = 0 /\ q.last_attempt = NullText
                 /\ rows' = rows \cup {q}]_vars

\* get_next_job has returned a row for the second time while another row of
\* the same device, never returned, is in the table as it was inserted.
C11_Witness ==
    /\ result.op = "get_next_job"
    /\ \E j \in result.job :
          /\ j.attempts = 2
          /\ \E r \in DeviceRows(rows, result.device) :
                r.id # j.id /\ r.attempts = 0 /\ r.last_attempt = NullText

\* --------------------------------------------------------------------- C12
\* C12 (amended): a get_next_job(device) made right after new_job(build_url,
\* device) and meeting no storage error returns the row just inserted, with
\* that build_url, provided the new row's created is later than that of
\* every other row of the device that is not exhausted.
C12_EnqueueThenTake ==
    [][(trip.stage = 1 /\ result'.op = "get_next_job" /\ result'.device = trip.device
          /\ ~result'.error /\ trip.newest)
          => /\ result'.job # {}
             /\ \A j \in result'.job :
                   /\ j.id = trip.id
                   /\ j.build_url = trip.url
                   /\ \E r \in DeviceRows(rows', trip.device) : r.id = j.id]_vars

\* The row just inserted has been returned although an older row of the
\* same device with another build_url, not exhausted, is in the table.
C12_Witness ==
    /\ trip.stage = 2
    /\ trip.newest
    /\ result.op = "get_next_job"
    /\ \E j \in result.job :
          /\ j.id = NextRowid(trip.pre)
          /\ j.build_url = trip.url
          /\ \E r \in DeviceRows(trip.pre, trip.device) :
                r.attempts < MAX_ATTEMPTS /\ r.build_url # j.build_url

\* C12 (as stated): every get_next_job(device) made right after
\* new_job(build_url, device) returns a job with that build_url.  It returns
\* None on a storage error, and another row of the device when that row's
\* created is not earlier than the new row's.
C12_EnqueueThenTakeAlways ==
    [][(trip.stage = 1 /\ result'.op = "get_next_job" /\ result'.device = trip.device)
          => /\ result'.job # {}
             /\ \A j \in result'.job : j.build_url = trip.url]_vars

\* ------------------------------------------------------------- C13
\* The recorded readings that lie within crash_window of the latest one, in
\* the order they were recorded.
Latest == crash_log[Len(crash_log)]
WithinWindow == SelectSeq(crash_log, LAMBDA x : Latest - x <= crashes.crash_window)
ClockNeverStepsBack == \A i \in 1..Len(crash_log) : \A k \in 1..Len(crash_log) : i < k => crash_log[i] <= crash_log[k]

\* C13 (as amended): provided the clock readings of successive add_crash calls
\* never decrease, too_many_crashes() is true exactly when at least crash_limit
\* of the recorded readings lie within crash_window of the latest one, and the
\* retained readings are exactly the recorded ones within that window.
C13_TooManyIffInWindow == (crash_log # << >> /\ ClockNeverStepsBack) =>
      /\ too_many_crashes(crashes) <=> Len(WithinWindow) >= crashes.crash_limit
      /\ crashes.crash_times = WithinWindow
C13_Witness == /\ ClockNeverStepsBack /\ Len(crash_log) > Len(crashes.crash_times) /\ too_many_crashes(crashes)
               /\ \E i \in 1..Len(crash_log) : Latest - crash_log[i] = crashes.crash_window
\* C13 as stated, for every sequence of clock readings.
C13_TooManyIffInWindowAnyClock == (crash_log # << >>) =>
      /\ too_many_crashes(crashes) <=> Len(WithinWindow) >= crashes.crash_limit
      /\ crashes.crash_times = WithinWindow

\* --------------------------------------------------------------------- C14
\* C14 (as stated): a step of the worker that meets a failure (it reports the
\* phone disconnected) records a crash in self.crashes, and whenever
\* self.crashes reports too many crashes the status is DISABLED.  The
\* program builds self.crashes and never calls add_crash or too_many_crashes.
C14_FailureRecordsCrash ==
    [][/\ (\E i \in DOMAIN log' : log'[i] = DISCONNECTED)
            => /\ Len(crash_log') = Len(crash_log) + 1
               /\ crashes' = add_crash_at(crashes, crash_log'[Len(crash_log')])
       /\ too_many_crashes(crashes') => status' = DISABLED]_vars

\* --------------------------------------------------------------------- C15
\* How many times a handler did something, and whether it did it at all.
Count(l, what) == Cardinality({i \in DOMAIN l : l[i] = what})
Has(l, what) == Count(l, what) > 0

\* A handle_job that fetched the build, rebooted a phone that answered at
\* once, installed without a failure, ran a test and completed the job.
HappyJob(l) ==
    /\ Has(l, "cache get") \/ Has(l, "cache get with unittests")
    /\ Count(l, "reboot") = 1
    /\ Has(l, "install") /\ ~Has(l, "install failed")
    /\ Has(l, "runjob")
    /\ Has(l, "job_completed")

\* C15 (as stated): for a worker started in IDLE with a responsive phone and
\* one TestCase with an empty map, run emits IDLE once, and the handle_job
\* of a compatible job whose install succeeds emits exactly REBOOTING, IDLE,
\* INSTALLING, WORKING, IDLE and removes the job's row.  The program's run
\* emits IDLE twice (its own status_update, then check_sdcard's), and
\* WORKING is emitted only if the test's runjob reports it.
C15_HappyPathSequence ==
    [][/\ (handler'.name = "run" /\ status = IDLE /\ ~Has(log', "reboot")
              /\ ~Has(log', "clear_test_base_paths"))
            => Events(log') = << IDLE >>
       /\ (handler'.name = "handle_job" /\ tests = << UnitTest >> /\ HappyJob(log'))
            => /\ Events(log') = << REBOOTING, IDLE, INSTALLING, WORKING, IDLE >>
               /\ \A j \in job : \A r \in rows' : r.id # j.id]_vars

\* --------------------------------------------------------------------- C16
\* The ABI rule and the acceptance of a job by a TestCase, as the claim
\* words them.
AbiPasses(a, build_url) ==
    \/ a = "x86" /\ Contains(build_url, "x86")
    \/ a = "armeabi-v6" /\ Contains(build_url, "armv6")
    \/ a \notin {"x86", "armeabi-v6"} /\ ~Contains(build_url, "x86") /\ ~Contains(build_url, "armv6")
Accepts(t, build_url) ==
    \/ t.devices = {}
    \/ phoneid \in t.devices /\ \E p \in t.repos : p[1] = phoneid /\ Contains(build_url, p[2])
Accepted(ts, a, build_url) == AbiPasses(a, build_url) /\ \E i \in DOMAIN ts : Accepts(ts[i], build_url)
CacheAsked(l) == Has(l, "cache get") \/ Has(l, "cache get with unittests")

\* C16: handle_job asks the cache for the build if and only if the job passes
\* the ABI rule and at least one configured TestCase accepts it; otherwise
\* all it does is job_completed(job id): the row goes, and there is no
\* reboot, no install and no status event.
C16_CacheIffAccepted ==
    [][handler'.name = "handle_job" =>
          \A j \in job :
             /\ CacheAsked(log') <=> Accepted(tests, abi, j.build_url)
             /\ ~Accepted(tests, abi, j.build_url) =>
                   /\ log' = << "job_completed" >>
                   /\ rows' = {r \in rows : r.id # j.id}
                   /\ status' = status]_vars
C16_Witness ==
    /\ handler.name = "handle_job" /\ log = << "job_completed" >>
    /\ \E j \in result.job : AbiPasses(abi, j.build_url) /\ ~Accepted(tests, abi, j.build_url)
                             /\ \A r \in rows : r.id # j.id

\* --------------------------------------------------------------------- C17
\* C17 (as stated): the enable_unittests flag handle_job passes to the cache
\* is the OR of the enable_unittests flags of all TestCases that accept the
\* job.  The program's loop stops at the first accepting TestCase, and takes
\* the flag only from one that accepts by a repo of the device.
C17_UnittestsIsOrOfAccepting ==
    [][(handler'.name = "handle_job" /\ CacheAsked(log')) =>
          \A j \in job :
             Has(log', "cache get with unittests")
                <=> \E i \in DOMAIN tests : Accepts(tests[i], j.build_url) /\ tests[i].enable_unittests]_vars

\* --------------------------------------------------------------------- C18
\* The push/install/remove attempts of a handler, in order.
InstallAttempts(l) == SelectSeq(l, LAMBDA e : e \in {"install", "install failed"})

\* C18 (as stated): run_tests makes at most PHONE_RETRY_LIMIT install
\* attempts, makes none after one that succeeded, and sleeps
\* PHONE_RETRY_WAIT only between a failed attempt and the next one.  The
\* program's loop has no break: it always makes PHONE_RETRY_LIMIT attempts,
\* and sleeps after every failed one, the last included.
C18_InstallStopsAtSuccess ==
    [][handler'.name = "handle_job" =>
          LET a == InstallAttempts(log')
          IN  /\ Len(a) <= PHONE_RETRY_LIMIT
              /\ \A i \in DOMAIN a : a[i] = "install" => i = Len(a)
              /\ Count(log', "sleep")
                    = Cardinality({i \in DOMAIN a : a[i] = "install failed" /\ i < Len(a)})]_vars

C20_CacheFailureSpendsAttempt ==
    [][/\ (handler'.name = "handle_job" /\ Has(log', "cache failed")) =>
             \A j \in job :
                /\ log' \in { << "cache get", "cache failed" >>,
                              << "cache get with unittests", "cache failed" >> }
                /\ status' = status /\ current_build' = current_build
                /\ rows' = rows
                /\ \E r \in rows' : r.id = j.id /\ r.attempts = j.attempts
                /\ tried'.failures > 0 => tried' = [id |-> j.id, failures |-> j.attempts]
       /\ (handler'.name = "main_loop" /\ tried.failures = MAX_ATTEMPTS
              /\ (\E r \in rows : r.id = tried.id /\ r.attempts = MAX_ATTEMPTS)
              /\ status' \notin {DISABLED, DISCONNECTED} /\ ~result'.error) =>
             /\ result'.op = "get_next_job"
             /\ \A r \in rows' : r.id # tried.id
             /\ \A j \in result'.job : j.id # tried.id]_vars
C20_Witness ==
    /\ handler.name = "main_loop" /\ tried.failures = MAX_ATTEMPTS
    /\ result.op = "get_next_job" /\ ~result.error /\ result.job = {}
    /\ \E r \in result.pruned : r.id = tried.id /\ r.attempts = MAX_ATTEMPTS
    /\ \A r \in rows : r.id # tried.id

\* --------------------------------------------------------------------- C21
\* Where in a handler's log recover_phone starts, the status it starts in,
\* and the SD-card checks that pass (a failed one is followed at once by
\* clear_test_base_paths).
FirstReboot(l) == CHOOSE i \in DOMAIN l : l[i] = "reboot" /\ \A k \in 1..(i - 1) : l[k] # "reboot"
StatusAt(l, i, before) ==
    LET seen == Events(SubSeq(l, 1, i - 1))
    IN  IF seen = << >> THEN before ELSE seen[Len(seen)]
Verified(l, i) ==
    /\ i > FirstReboot(l)
    /\ l[i] = "check_sdcard"
    /\ i = Len(l) \/ l[i + 1] # "clear_test_base_paths"

\* C21: a call of recover_phone, in whichever handler, reboots at most
\* PHONE_MAX_REBOOTS times; after a reboot verified by the device root and a
\* passing SD-card check the status is IDLE and no further reboot is made;
\* when no reboot is verified all PHONE_MAX_REBOOTS were made and
\* phone_disconnected is called: a worker that was in no error state ends in
\* DISCONNECTED (one mail), one that was keeps its status.
C21_RecoverPhone ==
    [][Has(log', "reboot") =>
          LET l == log'
              at == StatusAt(l, FirstReboot(l), status)
              verified == {i \in DOMAIN l : Verified(l, i)}
              after == Events(SubSeq(l, FirstReboot(l), Len(l)))
          IN  /\ Count(l, "reboot") <= PHONE_MAX_REBOOTS
              /\ \A i \in verified :
                    /\ i < Len(l) /\ l[i + 1] = IDLE
                    /\ \A k \in DOMAIN l : k > i => l[k] # "reboot"
              /\ verified = {} =>
                    /\ Count(l, "reboot") = PHONE_MAX_REBOOTS
                    /\ at \notin {DISABLED, DISCONNECTED} =>
                          /\ status' = DISCONNECTED
                          /\ after = << DISCONNECTED >>
                          /\ Count(l, "mail disconnected") = 1
                    /\ at \in {DISABLED, DISCONNECTED} =>
                          /\ status' = at
                          /\ after = << >>
                          /\ ~Has(l, "mail disconnected")]_vars
C21_Witness ==
    /\ handler = [name |-> "handle_cmd", request |-> "reboot"]
    /\ Count(log, "reboot") = PHONE_MAX_REBOOTS
    /\ Has(log, "clear_test_base_paths")
    /\ status = DISCONNECTED /\ Count(log, "mail disconnected") = 1

\* --------------------------------------------------------------------- C22
\* C22 (as stated): while the worker is DISCONNECTED a turn of the main loop
\* on an empty queue goes on to the timed wait, and the worker leaves
\* DISCONNECTED without a command only in handle_timeout, after a ping.  The
\* program's main loop calls recover_phone itself whenever the worker has an
\* error and starts over without waiting while the error lasts, so
\* handle_timeout is never reached in DISCONNECTED.
C22_PingedWhileDisconnected ==
    [][/\ (status = DISCONNECTED /\ handler'.name = "main_loop" /\ status' = DISCONNECTED)
            => pc' = "wait"
       /\ (status = DISCONNECTED /\ status' # DISCONNECTED /\ handler'.name # "handle_cmd")
            => handler'.name = "handle_timeout" /\ Has(log', "ping")]_vars

C24_RunsOnlyAccepting ==
    [][handler'.name = "handle_job" =>
          \A j \in job :
             Count(log', "runjob")
                <= Cardinality({i \in DOMAIN tests : Accepts(tests[i], j.build_url)})]_vars

\* --------------------------------------------------------------------- C25
\* C25 (as stated): while the status is DISABLED, no step other than the
\* handling of a command reboots the phone, probes its device root or checks
\* its SD card.  The program's main loop calls recover_phone whenever
\* has_error(), which DISABLED satisfies.
C25_NoRecoveryWhileDisabled ==
    [][(status = DISABLED /\ handler'.name # "handle_cmd")
          => /\ ~Has(log', "reboot")
             /\ ~Has(log', "device_root")
             /\ ~Has(log', "check_sdcard")]_vars

\* --------------------------------------------------------------------- C26
\* The requests submitted and not yet dispatched, oldest first.
Undispatched == IF request = NoRequest THEN cmd_queue ELSE << request >> \o cmd_queue

\* C26: get_next_job is called (and a row's attempts counted) only in a turn
\* of the main loop that found the command queue empty; a dispatched command
\* is always the oldest one submitted and not yet dispatched, the others
\* keeping their order; and the dispatch of stop ends the main loop with no
\* status event, after which the worker takes no job, dispatches no command
\* and emits no status event.
C26_CommandsFirst ==
    [][/\ (handler'.name = "main_loop"
              \/ \E r \in rows : \E q \in rows' : q.id = r.id /\ q.attempts # r.attempts)
            => /\ handler'.name = "main_loop"
               /\ cmd_queue = << >> /\ request = NoRequest
       /\ handler'.name = "handle_cmd"
            => /\ Undispatched # << >>
               /\ handler'.request = Head(Undispatched)
               /\ Undispatched' = Tail(Undispatched)
       /\ handler'.name \in {"get", "put_nowait"}
            => /\ Len(Undispatched') >= Len(Undispatched)
               /\ SubSeq(Undispatched', 1, Len(Undispatched)) = Undispatched
       /\ (handler'.name = "handle_cmd" /\ handler'.request = "stop")
            => pc' = "stopped" /\ Events(log') = << >> /\ status' = status
       /\ pc = "stopped"
            => /\ pc' = "stopped" /\ status' = status /\ Events(log') = << >>
               /\ handler'.name \in {"put_nowait", "new_job"}
               /\ rows \subseteq rows' /\ job' = job /\ returned' = returned
               /\ Undispatched' # Undispatched => Undispatched = SubSeq(Undispatched', 1, Len(Undispatched))]_vars
C26_Witness ==
    /\ pc = "stopped" /\ cmd_queue # << >> /\ rows # {}
    /\ handler.name = "put_nowait"

\* --------------------------------------------------------------------- C27
\* C27 (as stated): a get_next_job that returns None because of a storage
\* error leaves the table exactly as it was.  The program commits the delete
\* of the exhausted rows before it selects and updates, so an error in a
\* later statement leaves the rows pruned.
C27_TakeIsAtomic ==
    [][(result'.op = "get_next_job" /\ result'.error) => rows' = rows]_vars

\* --------------------------------------------------------------------- C28
\* The rows of the other devices.
OtherRows(rs, device) == {r \in rs : r.device # device}

\* C28: a get_next_job or jobs_pending for device d leaves the rows of every
\* other device as they were, returns only a row of d, prunes only rows of d
\* and counts only rows of d.
C28_DevicePartitioned ==
    [][result'.op \in {"get_next_job", "jobs_pending"} =>
          LET d == result'.device
          IN  /\ OtherRows(rows', d) = OtherRows(rows, d)
              /\ \A j \in result'.job :
                    /\ \E r \in DeviceRows(rows, d) : r.id = j.id
                    /\ \E r \in DeviceRows(rows', d) : r.id = j.id
              /\ \A r \in rows \ rows' : r.device = d
              /\ (result'.op = "jobs_pending" /\ ~result'.error)
                    => result'.count = Cardinality(DeviceRows(rows, d))]_vars
C28_Witness ==
    /\ result.op = "get_next_job" /\ ~result.error /\ result.job # {}
    /\ \E r \in OtherRows(rows, result.device) : r.attempts >= MAX_ATTEMPTS
    /\ \E r \in OtherRows(rows, result.device) :
          \A j \in result.job : TextLess(j.created, r.created)

\* --------------------------------------------------------------------- C29
\* C29: once the phone answers every reboot, device root probe and SD-card
\* check, a worker that is DISCONNECTED and is sent no command eventually
\* reports IDLE in a turn of its main loop, and in that turn calls
\* get_next_job and, unless the table fails, takes the job pending for its
\* phone, which it handles next.
C29_RecoversFromDisconnected ==
    (answers /\ status = DISCONNECTED) ~>
        /\ status = IDLE /\ handler.name = "main_loop" /\ Has(log, IDLE)
        /\ result.op = "get_next_job" /\ result.device = phoneid
        /\ job = result.job
        /\ pc = IF job = {} THEN "wait" ELSE "job"
        /\ (job = {} /\ ~result.error) => DeviceRows(rows, phoneid) = {}
C29_Witness ==
    /\ answers /\ status = IDLE /\ handler.name = "main_loop"
    /\ Count(log, "reboot") = 1 /\ Has(log, IDLE)
    /\ result.op = "get_next_job" /\ job # {}
    /\ \A j \in job : j.attempts = 2

\* The worker's frame, had its phone been disabled
DisabledFrame == [Frame EXCEPT !.status = DISABLED]

\* C30: a handle_timeout that pings while the worker is not in an error state
\* either finds the phone and reports IDLE, or reports DISCONNECTED after
\* the "No response to ping." mail and nothing else; a job is taken, and
\* handled, only by a worker that is not in an error state, and a
\* DISCONNECTED worker takes one only in the turn in which a reboot was
\* verified; on a DISABLED worker handle_timeout does nothing at all.
C30_PingFailure ==
    [][/\ (handler'.name = "handle_timeout" /\ Has(log', "ping") /\ ~has_error(Frame))
           => /\ log' \in {<< "ping", IDLE >>,
                            << "ping", "mail disconnected", DISCONNECTED >>}
              /\ status' = log'[Len(log')]
              /\ last_ping'
       /\ (job' # {} /\ job' # job)
           => /\ ~has_error([Frame EXCEPT !.status = status'])
              /\ status = DISCONNECTED
                  => Has(log', "reboot") /\ Has(log', "device_root") /\ Has(log', IDLE)
       /\ handler'.name = "handle_job" => ~has_error(Frame)
       /\ \A due \in BOOLEAN, pong \in BOOLEAN, outs \in RebootRuns :
              handle_timeout(DisabledFrame, due, pong, outs) = DisabledFrame
      ]_vars
C30_Witness ==
    /\ handler.name = "handle_timeout"
    /\ log = << "ping", "mail disconnected", DISCONNECTED >>
    /\ status = DISCONNECTED
    /\ job = {}
    /\ DeviceRows(rows, phoneid) # {}

\* The row get_next_job handed to the worker as job j: the row it updated
HandedRow(r, j) ==
    /\ r.id = j.id
    /\ r.created = j.created
    /\ r.build_url = j.build_url
    /\ r.attempts = j.attempts
    /\ r.last_attempt = j.last_attempt
    /\ r.device = phoneid

\* C32 (as stated): whatever AutoPhone's new_job and clear_all calls do to the
\* table while the worker holds a job, the worker's handle_job removes no
\* row but the one get_next_job handed to it.  The program does not keep
\* this: job_completed deletes by ROWID, and after a clear_all the job's
\* ROWID is given to the next row enqueued (see C10).
C32_CompletesOwnRow ==
    [][handler'.name = "handle_job"
          => \A r \in rows \ rows' : \E j \in job : HandedRow(r, j)]_vars

\* C31: no row is returned by get_next_job more than MAX_ATTEMPTS times; and
\* if every handler of the worker returns to the top of main_loop, the
\* worker is time and again not in an error state, and from some point on
\* no job is enqueued and get_next_job meets no storage error, then from
\* some point on the table holds no row of the worker's phone.
C31_QueueDrains ==
    /\ [](\A r \in rows : r.taken <= MAX_ATTEMPTS /\ r.taken = r.attempts)
    /\ (/\ []<>(pc = "loop")
        /\ []<>(~has_error(Frame))
        /\ <>[][enq' = enq]_vars
        /\ <>[][~result'.error]_vars)
       => <>[](CountDevice(rows, phoneid) = 0)
C31_Witness ==
    /\ enq = MaxEnqueues
    /\ handler.name = "main_loop"
    /\ result.op = "get_next_job" /\ ~result.error
    /\ \E r \in result.pruned : r.taken = MAX_ATTEMPTS /\ r.id = 1
    /\ returned[2] = 1
    /\ rows = {}

====
